---- MODULE Spec2Model ----
(***************************************************************************)
(* State-vector simulator QuantumCircuit of                                *)
(* native_ai_quantum_energy/quantum_simulator.py, in exact arithmetic.     *)
(*                                                                         *)
(* Numbers.  Every gate entry of the simulator (0, +-1, +-i, 1/sqrt 2,     *)
(* e^{i pi/4}, cos and sin of multiples of pi/4) lies in the ring          *)
(* Z[w][1/sqrt 2], w = e^{i pi/4}.  A number of that ring is the tuple     *)
(* <<a, b, c, d, k>> = (a + b w + c w^2 + d w^3) / (sqrt 2)^k, kept in     *)
(* lowest terms (k >= 0 least).  w^4 = -1 and sqrt 2 = w - w^3.            *)
(*                                                                         *)
(* The collapse divides by sqrt(prob), which leaves the ring, and          *)
(* initialize_statevector accepts vectors whose squared norm is only       *)
(* within 1e-9 of 1.  The amplitude list self.state is therefore kept as   *)
(* a list of ring numbers and one common positive real factor:             *)
(* self.state[i] = state.amp[i] * sqrt((1 + state.dev*Eps) / state.den),   *)
(* with state.dev an integer, state.den a positive real ring number and    *)
(* Eps = 1e-9 / EpsPerTol.                                                 *)
(***************************************************************************)
EXTENDS Integers, Sequences, FiniteSets

\* ------------------------------------------------------------------ bounds
\* Largest qubit count a circuit is built with.
MaxQubits == 2
\* Calls made on one circuit.
MaxCalls == 3
\* Rotation angles are k*pi/2 for k in 0..MaxAngle.
MaxAngle == 2
\* random.random() returns j / 2^DrawBits, or the draw just under 1.
DrawBits == 2
\* math.isclose(..., rel_tol=1e-9, abs_tol=1e-9): the tolerance is 1/TolDen.
TolDen == 1000000000
\* Eps, the unit of the deviations from norm 1, is 1/(EpsPerTol*TolDen).
EpsPerTol == 2

\* TLC evaluates an operator's argument anew at each use of the parameter;
\* Strict(e, F) is F(e) with e evaluated once.
Strict(e, F(_)) == CHOOSE r \in {F(v) : v \in {e}} : TRUE

\* ------------------------------------------------------------- arithmetic
Abs(n) == IF n < 0 THEN -n ELSE n

RECURSIVE Pow2(_)
Pow2(n) == IF n = 0 THEN 1 ELSE 2 * Pow2(n - 1)

Zero == <<0, 0, 0, 0, 0>>
One == <<1, 0, 0, 0, 0>>
MinusOne == <<-1, 0, 0, 0, 0>>
ImagI == <<0, 0, 1, 0, 0>>
MinusI == <<0, 0, -1, 0, 0>>
Omega == <<0, 1, 0, 0, 0>>
InvSqrt2 == <<1, 0, 0, 0, 1>>

\* numerator times sqrt 2 = w - w^3
TimesSqrt2(z) == <<z[2] - z[4], z[1] + z[3], z[2] + z[4], z[3] - z[1], z[5]>>

RECURSIVE Lift(_, _)
\* the same number written over (sqrt 2)^k, k >= z[5]
Lift(z, k) ==
  IF z[5] >= k THEN z
  ELSE Lift([TimesSqrt2(z) EXCEPT ![5] = z[5] + 1], k)

RECURSIVE Reduce(_)
\* lowest terms: the numerator is divisible by sqrt 2 iff a = c, b = d (mod 2)
Reduce(z) ==
  IF z[5] > 0 /\ (z[1] - z[3]) % 2 = 0 /\ (z[2] - z[4]) % 2 = 0
  THEN Reduce(<<(z[2] - z[4]) \div 2, (z[1] + z[3]) \div 2,
                (z[2] + z[4]) \div 2, (z[3] - z[1]) \div 2, z[5] - 1>>)
  ELSE z

CAdd(x, y) ==
  LET k == IF x[5] > y[5] THEN x[5] ELSE y[5]
      p == Lift(x, k)
      q == Lift(y, k)
  IN Reduce(<<p[1] + q[1], p[2] + q[2], p[3] + q[3], p[4] + q[4], k>>)

CNeg(x) == <<-x[1], -x[2], -x[3], -x[4], x[5]>>

CSub(x, y) == CAdd(x, CNeg(y))

CMul(x, y) ==
  Reduce(<<x[1]*y[1] - x[2]*y[4] - x[3]*y[3] - x[4]*y[2],
           x[1]*y[2] + x[2]*y[1] - x[3]*y[4] - x[4]*y[3],
           x[1]*y[3] + x[2]*y[2] + x[3]*y[1] - x[4]*y[4],
           x[1]*y[4] + x[2]*y[3] + x[3]*y[2] + x[4]*y[1],
           x[5] + y[5]>>)

\* complex conjugate: conj(w) = -w^3
Conj(x) == <<x[1], -x[4], -x[3], -x[2], x[5]>>

\* abs(z) ** 2, a real number of the ring
Abs2(x) == CMul(x, Conj(x))

\* x is real: x = (a + b sqrt 2) / (sqrt 2)^k
IsReal(x) == x[3] = 0 /\ x[4] = -x[2]

\* sign of a + b sqrt 2
SgnAB(a, b) ==
  IF a = 0 /\ b = 0 THEN 0
  ELSE IF a >= 0 /\ b >= 0 THEN 1
  ELSE IF a <= 0 /\ b <= 0 THEN -1
  ELSE IF a > 0 THEN (IF a * a > 2 * b * b THEN 1 ELSE -1)
  ELSE (IF 2 * b * b > a * a THEN 1 ELSE -1)

\* sign of a real number of the ring
Sgn(x) == SgnAB(x[1], x[2])

\* x * (sqrt 2)^j, j >= 0
RECURSIVE TimesSqrt2Pow(_, _)
TimesSqrt2Pow(x, j) ==
  IF j = 0 THEN Reduce(x)
  ELSE IF x[5] > 0 THEN TimesSqrt2Pow([x EXCEPT ![5] = x[5] - 1], j - 1)
  ELSE TimesSqrt2Pow(TimesSqrt2(x), j - 1)

\* the integer n and the dyadic rational j / 2^b as ring numbers
IntC(n) == <<n, 0, 0, 0, 0>>
Dyadic(j, b) == Reduce(<<j, 0, 0, 0, 2 * b>>)

\* w^k
RECURSIVE OmegaPow(_)
OmegaPow(k) == IF k = 0 THEN One ELSE CMul(Omega, OmegaPow(k - 1))

\* math.cos(k*pi/4) and math.sin(k*pi/4), exactly
Cos(k) == CMul(CAdd(OmegaPow(k), Conj(OmegaPow(k))), Dyadic(1, 1))
Sin(k) == CMul(CSub(OmegaPow(k), Conj(OmegaPow(k))), CMul(MinusI, Dyadic(1, 1)))

\* A real x + y*Eps with x, y real ring numbers is compared with 0 by its
\* coarse part x first and its fine part y second.  That is exact while
\* |y|*Eps < |x| for x # 0, which holds when the integers of x and y are
\* small: |a + b sqrt 2| >= 1 / (|a| + 2|b|) for integers a, b not both 0.
Mag(x) == Abs(x[1]) + 2 * Abs(x[2])
Separated(x, y) ==
  x = Zero \/ (Mag(x) * Mag(y) * Pow2((x[5] + 1) \div 2)) \div EpsPerTol < TolDen
\* sign of x + y*Eps; undefined (no value) where the comparison is not exact
SgnFine(x, y) ==
  IF ~Separated(x, y) THEN CHOOSE s \in {} : TRUE
  ELSE IF Sgn(x) # 0 THEN Sgn(x) ELSE Sgn(y)

\* ------------------------------------------------------------------ state
VARIABLES num_qubits, state, measurements, result, calls, call

vars == <<num_qubits, state, measurements, result, calls, call>>

\* the call made last: the method's name and its arguments
Call(op, args) == [op |-> op, args |-> args]

Dim == Pow2(num_qubits)
Indices == 0 .. (Dim - 1)

\* index & mask, for a mask with one bit set
BitAnd(index, mask) == IF (index \div mask) % 2 = 1 THEN mask ELSE 0
\* (index >> shift) & 1
BitAt(index, shift) == (index \div Pow2(shift)) % 2

\* [0j] * len(self.state)
ZeroAmps == [i \in Indices |-> Zero]

\* the amplitude list amp scaled by sqrt((1 + dev*Eps) / den)
Vector(amp, dev, den) == [amp |-> amp, dev |-> dev, den |-> den]

\* one representation per amplitude list: the all-zero list has weight 1, and
\* a weight 1/2^j is multiplied into the amplitudes ((sqrt 2)^j is in the ring)
Canonical(vector) ==
  Strict(vector, LAMBDA st :
  IF \A i \in DOMAIN st.amp : st.amp[i] = Zero
  THEN Vector(st.amp, 0, One)
  ELSE IF st.den[1] = 1 /\ st.den[2] = 0 /\ st.den[3] = 0 /\ st.den[4] = 0
          /\ st.den[5] % 2 = 0
  THEN Vector([i \in DOMAIN st.amp |-> TimesSqrt2Pow(st.amp[i], st.den[5] \div 2)],
              st.dev, One)
  ELSE st)

\* the values calls return: None, an int, a str (its sequence of characters)
None == [type |-> "NoneType"]
PyInt(n) == [type |-> "int", v |-> n]
PyStr(chars) == [type |-> "str", v |-> chars]

\* __init__
Init ==
  /\ num_qubits \in 1 .. MaxQubits
  /\ state = Vector([i \in 0 .. (Pow2(num_qubits) - 1) |-> IF i = 0 THEN One ELSE Zero],
                    0, One)
  /\ measurements = <<>>
  /\ result = [status |-> "ok", val |-> None]
  /\ calls = 0
  /\ call = Call("__init__", <<num_qubits>>)

\* a call that raises exc; the attributes keep what was assigned before the raise
Raise(exc) ==
  /\ result' = [status |-> exc, val |-> None]
  /\ calls' = calls + 1
  /\ UNCHANGED num_qubits

\* a call that returns val
Return(val) ==
  /\ result' = [status |-> "ok", val |-> val]
  /\ calls' = calls + 1
  /\ UNCHANGED num_qubits

\* ------------------------------------------------------------------ gates
H_GATE == <<<<InvSqrt2, InvSqrt2>>, <<InvSqrt2, CNeg(InvSqrt2)>>>>
X_GATE == <<<<Zero, One>>, <<One, Zero>>>>
Y_GATE == <<<<Zero, MinusI>>, <<ImagI, Zero>>>>
Z_GATE == <<<<One, Zero>>, <<Zero, MinusOne>>>>
S_GATE == <<<<One, Zero>>, <<Zero, ImagI>>>>
T_GATE == <<<<One, Zero>>, <<Zero, CAdd(Cos(1), CMul(ImagI, Sin(1)))>>>>

\* the matrices apply_rx, apply_ry, apply_rz build for angle = k*pi/2
RxGate(k) ==
  <<<<Cos(k), CMul(MinusI, Sin(k))>>, <<CMul(MinusI, Sin(k)), Cos(k)>>>>
RyGate(k) ==
  <<<<Cos(k), CNeg(Sin(k))>>, <<Sin(k), Cos(k)>>>>
RzGate(k) ==
  <<<<CSub(Cos(k), CMul(ImagI, Sin(k))), Zero>>,
    <<Zero, CAdd(Cos(k), CMul(ImagI, Sin(k)))>>>>

\* the mask with qubit 0 as the least significant bit
MaskFromLeastBit(qubit) == Pow2(qubit)

\* 1 << (self.num_qubits - 1 - qubit)
Mask(qubit) == Pow2(num_qubits - 1 - qubit)

\* the loop of _apply_single_qubit_gate from `index` on: new_state is written
\* pair by pair, every amplitude read from the old list
RECURSIVE GateLoop(_, _, _, _, _)
GateLoop(old, new_state, gate, mask, index) ==
  IF index = Dim THEN new_state
  ELSE IF BitAnd(index, mask) # 0
  THEN GateLoop(old, new_state, gate, mask, index + 1)
  ELSE LET partner == index + mask
           amp0 == old[index]
           amp1 == old[partner]
       IN GateLoop(old,
                   [new_state EXCEPT
                      ![index] = CAdd(CMul(gate[1][1], amp0), CMul(gate[1][2], amp1)),
                      ![partner] = CAdd(CMul(gate[2][1], amp0), CMul(gate[2][2], amp1))],
                   gate, mask, index + 1)

InRange(q) == q >= 0 /\ q < num_qubits

_apply_single_qubit_gate(gate, qubit) ==
  IF ~InRange(qubit)
  THEN Raise("IndexError") /\ UNCHANGED <<state, measurements>>
  ELSE /\ state' = [state EXCEPT !.amp = GateLoop(state.amp, state.amp, gate, Mask(qubit), 0)]
       /\ UNCHANGED measurements
       /\ Return(None)

\* the angles the rotations are called with: k stands for k*pi/2
Angles == 0 .. MaxAngle

\* the qubit indices calls are made with: all valid ones, one below, one above
QubitArgs == -1 .. num_qubits

apply_hadamard ==
  /\ calls < MaxCalls
  /\ \E qubit \in QubitArgs :
       /\ _apply_single_qubit_gate(H_GATE, qubit)
       /\ call' = Call("apply_hadamard", <<qubit>>)
apply_pauli_x ==
  /\ calls < MaxCalls
  /\ \E qubit \in QubitArgs :
       /\ _apply_single_qubit_gate(X_GATE, qubit)
       /\ call' = Call("apply_pauli_x", <<qubit>>)
apply_pauli_y ==
  /\ calls < MaxCalls
  /\ \E qubit \in QubitArgs :
       /\ _apply_single_qubit_gate(Y_GATE, qubit)
       /\ call' = Call("apply_pauli_y", <<qubit>>)
apply_pauli_z ==
  /\ calls < MaxCalls
  /\ \E qubit \in QubitArgs :
       /\ _apply_single_qubit_gate(Z_GATE, qubit)
       /\ call' = Call("apply_pauli_z", <<qubit>>)
apply_s ==
  /\ calls < MaxCalls
  /\ \E qubit \in QubitArgs :
       /\ _apply_single_qubit_gate(S_GATE, qubit)
       /\ call' = Call("apply_s", <<qubit>>)
apply_t ==
  /\ calls < MaxCalls
  /\ \E qubit \in QubitArgs :
       /\ _apply_single_qubit_gate(T_GATE, qubit)
       /\ call' = Call("apply_t", <<qubit>>)
apply_rx ==
  /\ calls < MaxCalls
  /\ \E qubit \in QubitArgs, k \in Angles :
       /\ _apply_single_qubit_gate(RxGate(k), qubit)
       /\ call' = Call("apply_rx", <<qubit, k>>)
apply_ry ==
  /\ calls < MaxCalls
  /\ \E qubit \in QubitArgs, k \in Angles :
       /\ _apply_single_qubit_gate(RyGate(k), qubit)
       /\ call' = Call("apply_ry", <<qubit, k>>)
apply_rz ==
  /\ calls < MaxCalls
  /\ \E qubit \in QubitArgs, k \in Angles :
       /\ _apply_single_qubit_gate(RzGate(k), qubit)
       /\ call' = Call("apply_rz", <<qubit, k>>)

\* index ^ target_mask, for a mask with one bit set
BitXor(index, mask) == IF BitAnd(index, mask) # 0 THEN index - mask ELSE index + mask

\* new_index with the target bit set rather than flipped
NewIndexSetsTarget(index, control_mask, target_mask) ==
  IF BitAnd(index, control_mask) # 0
  THEN (IF BitAnd(index, target_mask) # 0 THEN index ELSE index + target_mask)
  ELSE index

\* new_index of apply_cnot's loop
NewIndex(index, control_mask, target_mask) ==
  IF BitAnd(index, control_mask) # 0 THEN BitXor(index, target_mask) ELSE index

\* the loop of apply_cnot from `index` on: new_state[new_index] += amplitude
RECURSIVE CnotLoop(_, _, _, _, _)
CnotLoop(old, new_state, control_mask, target_mask, index) ==
  IF index = Dim THEN new_state
  ELSE LET new_index == NewIndex(index, control_mask, target_mask)
       IN CnotLoop(old,
                   [new_state EXCEPT ![new_index] = CAdd(new_state[new_index], old[index])],
                   control_mask, target_mask, index + 1)

\* apply_cnot with the range check made before the equality check
CnotApplyRangeFirst(control, target) ==
  IF \E q \in {control, target} : q < 0 \/ q >= num_qubits
  THEN Raise("IndexError") /\ UNCHANGED <<state, measurements>>
  ELSE IF control = target
  THEN Raise("ValueError") /\ UNCHANGED <<state, measurements>>
  ELSE /\ state' = [state EXCEPT
                      !.amp = CnotLoop(state.amp, ZeroAmps, Mask(control), Mask(target), 0)]
       /\ UNCHANGED measurements
       /\ Return(None)

CnotApply(control, target) ==
  IF control = target
  THEN Raise("ValueError") /\ UNCHANGED <<state, measurements>>
  ELSE IF \E q \in {control, target} : q < 0 \/ q >= num_qubits
  THEN Raise("IndexError") /\ UNCHANGED <<state, measurements>>
  ELSE /\ state' = [state EXCEPT
                      !.amp = CnotLoop(state.amp, ZeroAmps, Mask(control), Mask(target), 0)]
       /\ UNCHANGED measurements
       /\ Return(None)

apply_cnot ==
  /\ calls < MaxCalls
  /\ \E control \in QubitArgs, target \in QubitArgs :
       /\ CnotApply(control, target)
       /\ call' = Call("apply_cnot", <<control, target>>)

\* the loop of apply_cz from `index` on
RECURSIVE CzLoop(_, _, _, _, _)
CzLoop(old, new_state, control_mask, target_mask, index) ==
  IF index = Dim THEN new_state
  ELSE CzLoop(old,
              IF BitAnd(index, control_mask) # 0 /\ BitAnd(index, target_mask) # 0
              THEN [new_state EXCEPT ![index] = CNeg(old[index])]
              ELSE new_state,
              control_mask, target_mask, index + 1)

CzApply(control, target) ==
  IF control = target
  THEN Raise("ValueError") /\ UNCHANGED <<state, measurements>>
  ELSE IF \E q \in {control, target} : q < 0 \/ q >= num_qubits
  THEN Raise("IndexError") /\ UNCHANGED <<state, measurements>>
  ELSE /\ state' = [state EXCEPT
                      !.amp = CzLoop(state.amp, state.amp, Mask(control), Mask(target), 0)]
       /\ UNCHANGED measurements
       /\ Return(None)

apply_cz ==
  /\ calls < MaxCalls
  /\ \E control \in QubitArgs, target \in QubitArgs :
       /\ CzApply(control, target)
       /\ call' = Call("apply_cz", <<control, target>>)

\* ----------------------------------------------------------- measurement
\* a value of random.random(): the real c + f*Eps, in [0, 1)
Draw(c, f) == [c |-> c, f |-> f]

\* the draws the model makes: j / 2^DrawBits, and 1 - Eps
Draws ==
  {Draw(Dyadic(j, DrawBits), 0) : j \in 0 .. (Pow2(DrawBits) - 1)} \cup {Draw(One, -1)}

\* rand < cumulative, where cumulative is the sum of abs(amplitude) ** 2 over
\* amplitudes of st, that is `coarse` * (1 + st.dev*Eps) / st.den
RandLess(rand, coarse, st) ==
  SgnFine(CSub(CMul(rand.c, st.den), coarse),
          CSub(CMul(IntC(rand.f), st.den), CMul(IntC(st.dev), coarse))) < 0

\* tuple((index >> (self.num_qubits - 1 - q)) & 1 for q in qubits)
Bits(index, qubits) ==
  [j \in 1 .. Len(qubits) |-> BitAt(index, num_qubits - 1 - qubits[j])]

\* the loop filling outcome_probs from `index` on (the masses without the weight)
RECURSIVE ProbLoop(_, _, _, _)
ProbLoop(amp, qubits, outcome_probs, index) ==
  IF index = Dim THEN outcome_probs
  ELSE Strict([b \in DOMAIN outcome_probs \cup {Bits(index, qubits)} |->
                 IF b = Bits(index, qubits)
                 THEN CAdd(IF b \in DOMAIN outcome_probs THEN outcome_probs[b] ELSE Zero,
                           Abs2(amp[index]))
                 ELSE outcome_probs[b]],
              LAMBDA counted : ProbLoop(amp, qubits, counted, index + 1))

\* Python's tuple order on bit tuples of one length
RECURSIVE TupleLess(_, _)
TupleLess(a, b) ==
  IF a = <<>> THEN FALSE
  ELSE IF a[1] # b[1] THEN a[1] < b[1]
  ELSE TupleLess(Tail(a), Tail(b))

\* sorted(..., reverse=True) on the keys
RECURSIVE SortedDesc(_)
SortedDesc(keys) ==
  IF keys = {} THEN <<>>
  ELSE LET top == CHOOSE a \in keys : \A b \in keys : ~TupleLess(a, b)
       IN <<top>> \o SortedDesc(keys \ {top})

\* the selection loop from position pos on: the position of the chosen
\* outcome, or 0 when the loop ends with chosen_outcome still None
RECURSIVE SelectLoop(_, _, _, _, _, _)
SelectLoop(sorted_outcomes, outcome_probs, rand, st, cumulative, pos) ==
  IF pos > Len(sorted_outcomes) THEN 0
  ELSE Strict(CAdd(cumulative, outcome_probs[sorted_outcomes[pos]]),
              LAMBDA next :
                IF RandLess(rand, next, st) THEN pos
                ELSE SelectLoop(sorted_outcomes, outcome_probs, rand, st, next, pos + 1))

\* chosen_outcome after the loop and the fallback
ChosenOutcome(sorted_outcomes, selected) ==
  IF selected = 0 THEN sorted_outcomes[Len(sorted_outcomes)]
  ELSE sorted_outcomes[selected]

\* str(bit) and int(digit) on the bits 0 and 1
Str(bit) == IF bit = 0 THEN "0" ELSE "1"
ToInt(digit) == IF digit = "0" THEN 0 ELSE 1

\* "".join(str(bit) for bit in bits): the string as its sequence of characters
Join(bits) == [j \in 1 .. Len(bits) |-> Str(bits[j])]

\* new_state with every amplitude kept, matching chosen_outcome or not
CollapsedKeepsAll(st, qubits, chosen_outcome, prob) ==
  IF Sgn(prob) > 0
  THEN Canonical(Vector(st.amp, 0, prob))
  ELSE Canonical(Vector(st.amp, st.dev, st.den))

\* new_state of _collapse_qubits: the amplitudes that match chosen_outcome,
\* divided by sqrt(prob) when prob > 0
Collapsed(st, qubits, chosen_outcome, prob) ==
  Strict([i \in Indices |-> IF Bits(i, qubits) = chosen_outcome THEN st.amp[i] ELSE Zero],
         LAMBDA kept :
           IF Sgn(prob) > 0
           THEN Canonical(Vector(kept, 0, prob))
           ELSE Canonical(Vector(kept, st.dev, st.den)))

\* the sampling of _collapse_qubits: outcome_probs, sorted_outcomes (the keys),
\* the position the loop selected (0: none) and chosen_outcome
Selection(st, qubits, rand) ==
  Strict(ProbLoop(st.amp, qubits, <<>>, 0), LAMBDA outcome_probs :
  Strict(SortedDesc(DOMAIN outcome_probs), LAMBDA sorted_outcomes :
  Strict(SelectLoop(sorted_outcomes, outcome_probs, rand, st, Zero, 1), LAMBDA selected :
    [outcome_probs |-> outcome_probs,
     sorted_outcomes |-> sorted_outcomes,
     selected |-> selected,
     chosen_outcome |-> ChosenOutcome(sorted_outcomes, selected)])))

\* _collapse_qubits on the amplitude list st with random.random() = rand
_collapse_qubits(st, qubits, rand) ==
  IF \E j \in 1 .. Len(qubits) : qubits[j] < 0 \/ qubits[j] >= num_qubits
  THEN [status |-> "IndexError", outcome |-> <<>>, new_state |-> st]
  ELSE IF Cardinality({qubits[j] : j \in 1 .. Len(qubits)}) # Len(qubits)
  THEN [status |-> "ValueError", outcome |-> <<>>, new_state |-> st]
  ELSE IF qubits = <<>>
  THEN [status |-> "ok", outcome |-> <<>>, new_state |-> st]
  ELSE Strict(Selection(st, qubits, rand), LAMBDA s :
         [status |-> "ok", outcome |-> Join(s.chosen_outcome),
          new_state |-> Collapsed(st, qubits, s.chosen_outcome,
                                  s.outcome_probs[s.chosen_outcome])])

\* whether _collapse_qubits(qubits) reaches random.random()
Samples(qubits) ==
  /\ qubits # <<>>
  /\ \A j \in 1 .. Len(qubits) : InRange(qubits[j])
  /\ Cardinality({qubits[j] : j \in 1 .. Len(qubits)}) = Len(qubits)

\* measure(qubit) with random.random() = rand
MeasureCall(qubit, rand) ==
  \E c \in {_collapse_qubits(state, <<qubit>>, rand)} :
     IF c.status # "ok"
     THEN Raise(c.status) /\ UNCHANGED <<state, measurements>>
     ELSE /\ state' = c.new_state
          /\ measurements' = (IF c.outcome # <<>> THEN <<ToInt(c.outcome[1])>> ELSE <<>>)
          /\ Return(PyInt(IF c.outcome # <<>> THEN ToInt(c.outcome[1]) ELSE 0))

\* a call of measure with any argument and draw
MeasureStep ==
  \E qubit \in QubitArgs :
     /\ IF Samples(<<qubit>>) THEN \E rand \in Draws : MeasureCall(qubit, rand)
        ELSE MeasureCall(qubit, Draw(Zero, 0))
     /\ call' = Call("measure", <<qubit>>)

measure == calls < MaxCalls /\ MeasureStep

\* the loop of measure_all from qubit q on; rands[q + 1] is the draw of step q
RECURSIVE MeasureAllLoop(_, _, _, _)
MeasureAllLoop(st, bits, q, rands) ==
  IF q = num_qubits THEN [state |-> st, bits |-> bits]
  ELSE Strict(_collapse_qubits(st, <<q>>, rands[q + 1]), LAMBDA c :
       Strict(IF c.outcome # <<>> THEN ToInt(c.outcome[1]) ELSE 0, LAMBDA bit :
         MeasureAllLoop(c.new_state, Append(bits, bit), q + 1, rands)))

MeasureAllCall(rands) ==
  \E done \in {MeasureAllLoop(state, <<>>, 0, rands)} :
     /\ state' = done.state
     /\ measurements' = done.bits
     /\ Return(PyStr(Join(done.bits)))

\* a call of measure_all with any draws
MeasureAllStep ==
  /\ \E rands \in [1 .. num_qubits -> Draws] : MeasureAllCall(rands)
  /\ call' = Call("measure_all", <<>>)

measure_all == calls < MaxCalls /\ MeasureAllStep

\* measure_subset with self.measurements cleared before the checks
MeasureSubsetClearsFirst(qubits, rand) ==
  \E c \in {_collapse_qubits(state, qubits, rand)} :
     IF c.status # "ok"
     THEN Raise(c.status) /\ state' = state /\ measurements' = <<>>
     ELSE /\ state' = c.new_state
          /\ measurements' = [j \in 1 .. Len(c.outcome) |-> ToInt(c.outcome[j])]
          /\ Return(PyStr(c.outcome))

\* measure_subset(qubits) with random.random() = rand
MeasureSubsetCall(qubits, rand) ==
  \E c \in {_collapse_qubits(state, qubits, rand)} :
     IF c.status # "ok"
     THEN Raise(c.status) /\ UNCHANGED <<state, measurements>>
     ELSE /\ state' = c.new_state
          /\ measurements' = [j \in 1 .. Len(c.outcome) |-> ToInt(c.outcome[j])]
          /\ Return(PyStr(c.outcome))

\* the qubit lists measure_subset is called with
SubsetArgs == UNION {[1 .. m -> QubitArgs] : m \in 0 .. num_qubits}

\* a call of measure_subset with any argument and draw
MeasureSubsetStep ==
  \E qubits \in SubsetArgs :
     /\ IF Samples(qubits) THEN \E rand \in Draws : MeasureSubsetCall(qubits, rand)
        ELSE MeasureSubsetCall(qubits, Draw(Zero, 0))
     /\ call' = Call("measure_subset", <<qubits>>)

measure_subset == calls < MaxCalls /\ MeasureSubsetStep

\* -------------------------------------------------- initialize_statevector
\* sum(abs(amp) ** 2 for amp in amplitudes) without the weight, from index i on
RECURSIVE NormLoop(_, _)
NormLoop(amp, i) ==
  IF i \notin DOMAIN amp THEN Zero ELSE CAdd(Abs2(amp[i]), NormLoop(amp, i + 1))

\* math.isclose(norm, 1.0, rel_tol=1e-9, abs_tol=1e-9) for
\* norm = coarse * (1 + dev*Eps):  |norm - 1| <= 1e-9 * max(norm, 1).
\* With coarse # 1 the distance is a ring number's, far above 1e-9; with
\* coarse = 1 it is |dev|*Eps against EpsPerTol*Eps*max(1 + dev*Eps, 1).
IsClose(coarse, dev) ==
  IF ~Separated(CSub(coarse, One), CMul(IntC(Abs(dev) + EpsPerTol), coarse))
  THEN CHOOSE s \in {} : TRUE
  ELSE coarse = One /\ Abs(dev) <= EpsPerTol

\* a list of ring numbers, indexed from 0
List(seq) == [i \in 0 .. (Len(seq) - 1) |-> seq[i + 1]]

Half == Dyadic(1, 1)

\* the vectors initialize_statevector is called with
InitArgs ==
  { Vector(List(<<Zero, One>>), 0, One),
    Vector(List(<<InvSqrt2, CMul(ImagI, InvSqrt2)>>), 0, One),
    Vector(List(<<Zero, One>>), -1, One),
    Vector(List(<<InvSqrt2, InvSqrt2>>), 1, One),
    Vector(List(<<One, Zero>>), -(EpsPerTol + 1), One),
    Vector(List(<<One, One>>), 0, One),
    Vector(List(<<Half, CMul(ImagI, Half), CNeg(Half), Half>>), 0, One),
    Vector(List(<<Zero, Zero, Zero, One>>), -1, One),
    Vector(List(<<Half, Half, Half, Zero>>), 0, One) }

InitializeCall(amplitudes) ==
  IF Cardinality(DOMAIN amplitudes.amp) # Pow2(num_qubits)
  THEN Raise("ValueError") /\ UNCHANGED <<state, measurements>>
  ELSE IF ~IsClose(NormLoop(amplitudes.amp, 0), amplitudes.dev)
  THEN Raise("ValueError") /\ UNCHANGED <<state, measurements>>
  ELSE /\ state' = amplitudes
       /\ UNCHANGED measurements
       /\ Return(None)

initialize_statevector ==
  /\ calls < MaxCalls
  /\ \E amplitudes \in InitArgs :
       /\ InitializeCall(amplitudes)
       /\ call' = Call("initialize_statevector", <<amplitudes>>)

\* ------------------------------------------------------------ the machine
Next ==
  \/ apply_hadamard
  \/ apply_pauli_x
  \/ apply_pauli_y
  \/ apply_pauli_z
  \/ apply_s
  \/ apply_t
  \/ apply_rx
  \/ apply_ry
  \/ apply_rz
  \/ apply_cnot
  \/ apply_cz
  \/ measure
  \/ measure_all
  \/ measure_subset
  \/ initialize_statevector

Spec == Init /\ [][Next]_vars

\* ------------------------------------------------- the Bell-pair scenario
\* A fresh 2-qubit circuit, apply_hadamard(0), apply_cnot(0, 1), then
\* measurements only: first measure(0) or measure_all, then any measurement.
\* Calls made on the circuit of the scenario.
BellCalls == 5

InitBell == Init /\ num_qubits = 2

bell_hadamard ==
  /\ calls = 0
  /\ _apply_single_qubit_gate(H_GATE, 0)
  /\ call' = Call("apply_hadamard", <<0>>)

bell_cnot ==
  /\ calls = 1
  /\ CnotApply(0, 1)
  /\ call' = Call("apply_cnot", <<0, 1>>)

bell_measure_qubit0 ==
  /\ calls = 2
  /\ \E rand \in Draws : MeasureCall(0, rand)
  /\ call' = Call("measure", <<0>>)

bell_measure_all == calls >= 2 /\ calls < BellCalls /\ MeasureAllStep

bell_measure == calls >= 3 /\ calls < BellCalls /\ MeasureStep

bell_measure_subset == calls >= 3 /\ calls < BellCalls /\ MeasureSubsetStep

NextBell ==
  \/ bell_hadamard
  \/ bell_cnot
  \/ bell_measure_qubit0
  \/ bell_measure_all
  \/ bell_measure
  \/ bell_measure_subset

SpecBell == InitBell /\ [][NextBell]_vars

\* --------------------------------------------- measurement in binary64
\* The amplitudes are Python complex numbers, pairs of binary64 doubles, and
\* amp / norm on line 309 rounds.  Which way it rounds depends on the low
\* bits of the doubles, which the ring numbers do not carry; what the next
\* call sees of it is the sum of abs(amplitude) ** 2 on line 285, written
\* here as 1 + dev*Eps: 1.0, the double above it or a double below it.  A
\* double below 1 is at most 1 - 2^-53, the largest value random.random()
\* returns, so a sum rounded down is not above the largest draw, 1 - Eps.
\* The rounding of the gates is left out.

\* whether [amp / norm for amp in new_state] is exact.  It is when norm is
\* 1.0: prob is 1.0, or the double above it, whose square root rounds to 1.0.
\* It is when one amplitude is left and it is real or imaginary, x or x*1j:
\* abs(amp) ** 2 is fl(x*x), math.sqrt(fl(x*x)) is |x|, and x / |x| is 1 or -1.
DivisionIsExact(st, kept, prob) ==
  \/ st.dev >= 0 /\ prob = st.den
  \/ /\ Cardinality({i \in DOMAIN kept : kept[i] # Zero}) = 1
     /\ \A i \in DOMAIN kept :
          kept[i] = Zero \/ IsReal(kept[i]) \/ IsReal(CMul(ImagI, kept[i]))

\* the squared norms a rounded division leaves, as dev
Roundings == {-1, 0, 1}

\* _collapse_qubits in binary64: the division rounds to `rounding`
RoundedCollapse(st, qubits, rand, rounding) ==
  Strict(_collapse_qubits(st, qubits, rand), LAMBDA c :
    IF c.status # "ok" \/ qubits = <<>> THEN c
    ELSE Strict(Selection(st, qubits, rand), LAMBDA s :
         Strict(s.outcome_probs[s.chosen_outcome], LAMBDA prob :
           IF Sgn(prob) <= 0 \/ DivisionIsExact(st, c.new_state.amp, prob) THEN c
           ELSE [c EXCEPT !.new_state =
                   Vector(c.new_state.amp, rounding, c.new_state.den)])))

\* measure(qubit) in binary64
RoundedMeasureCall(qubit, rand, rounding) ==
  \E c \in {RoundedCollapse(state, <<qubit>>, rand, rounding)} :
     IF c.status # "ok"
     THEN Raise(c.status) /\ UNCHANGED <<state, measurements>>
     ELSE /\ state' = c.new_state
          /\ measurements' = (IF c.outcome # <<>> THEN <<ToInt(c.outcome[1])>> ELSE <<>>)
          /\ Return(PyInt(IF c.outcome # <<>> THEN ToInt(c.outcome[1]) ELSE 0))

\* measure_subset(qubits) in binary64
RoundedMeasureSubsetCall(qubits, rand, rounding) ==
  \E c \in {RoundedCollapse(state, qubits, rand, rounding)} :
     IF c.status # "ok"
     THEN Raise(c.status) /\ UNCHANGED <<state, measurements>>
     ELSE /\ state' = c.new_state
          /\ measurements' = [j \in 1 .. Len(c.outcome) |-> ToInt(c.outcome[j])]
          /\ Return(PyStr(c.outcome))

\* Calls made on the circuit of the scenario: a fresh 1-qubit circuit,
\* rotations about the X and Y axes, and measurements.
RoundedCalls == 4

InitRounded == Init /\ num_qubits = 1

rounded_measure ==
  /\ calls < RoundedCalls
  /\ \E qubit \in QubitArgs :
       /\ IF Samples(<<qubit>>)
          THEN \E rand \in Draws, rounding \in Roundings :
                  RoundedMeasureCall(qubit, rand, rounding)
          ELSE RoundedMeasureCall(qubit, Draw(Zero, 0), 0)
       /\ call' = Call("measure", <<qubit>>)

rounded_measure_subset ==
  /\ calls < RoundedCalls
  /\ \E qubits \in SubsetArgs :
       /\ IF Samples(qubits)
          THEN \E rand \in Draws, rounding \in Roundings :
                  RoundedMeasureSubsetCall(qubits, rand, rounding)
          ELSE RoundedMeasureSubsetCall(qubits, Draw(Zero, 0), 0)
       /\ call' = Call("measure_subset", <<qubits>>)

NextRounded ==
  \/ apply_rx
  \/ apply_ry
  \/ rounded_measure
  \/ rounded_measure_subset

SpecRounded == InitRounded /\ [][NextRounded]_vars

\* ============================================================== properties
\* the methods that take qubit indices, and the indices the last call gave
SingleQubitOps ==
  {"apply_hadamard", "apply_pauli_x", "apply_pauli_y", "apply_pauli_z",
   "apply_s", "apply_t", "apply_rx", "apply_ry", "apply_rz"}
TwoQubitOps == {"apply_cnot", "apply_cz"}
IndexOps == SingleQubitOps \cup TwoQubitOps \cup {"measure", "measure_subset"}

GivenIndices(c) ==
  IF c.op \in TwoQubitOps THEN c.args
  ELSE IF c.op = "measure_subset" THEN c.args[1]
  ELSE <<c.args[1]>>

AnyOutOfRange(c) ==
  \E j \in 1 .. Len(GivenIndices(c)) :
     GivenIndices(c)[j] < 0 \/ GivenIndices(c)[j] >= num_qubits
Coincide(c) ==
  \E j, k \in 1 .. Len(GivenIndices(c)) : j # k /\ GivenIndices(c)[j] = GivenIndices(c)[k]

\* the step is the sampling measurement named by call', made with the draw rand
SampledWith(rand) ==
  /\ result'.status = "ok"
  /\ \/ call'.op = "measure" /\ MeasureCall(call'.args[1], rand)
     \/ call'.op = "measure_subset" /\ call'.args[1] # <<>>
          /\ MeasureSubsetCall(call'.args[1], rand)

\* sum(abs(amp) ** 2 for amp in self.state) compared with the real 1 + t*Eps:
\* the sign of NormLoop(amp) * (1 + dev*Eps) / den - (1 + t*Eps)
NormAgainst(st, t) ==
  SgnFine(CSub(NormLoop(st.amp, 0), st.den),
          CSub(CMul(IntC(st.dev), NormLoop(st.amp, 0)), CMul(IntC(t), st.den)))

\* the squared norm of st is within 1e-9 of 1
NormIsOne(st) == NormAgainst(st, -EpsPerTol) >= 0 /\ NormAgainst(st, EpsPerTol) <= 0

\* C1: in every state a circuit reaches by gate calls, initialize_statevector
\* calls and measurements, with any draws, the squared magnitudes of the
\* amplitudes sum to 1 within the tolerance and the list has 2^num_qubits
\* entries.
C1_NormAndLength ==
  /\ DOMAIN state.amp = 0 .. (Pow2(num_qubits) - 1)
  /\ NormIsOne(state)

\* C2: a call that fails (index out of range, equal control and target,
\* duplicate qubits, wrong-length or non-unit vector) leaves the amplitude list
\* and self.measurements exactly as they were before the call.
C2_FailedCallChangesNothing ==
  [][result'.status # "ok" => state' = state /\ measurements' = measurements]_vars

\* C2 witness: a call failed on a circuit that had left its initial state and
\* held a measurement record.
C2_FailedAfterMeasurement ==
  /\ result.status # "ok"
  /\ measurements # <<>>
  /\ state.amp[0] # One

\* C3 as stated: a call given any index outside [0, num_qubits) raises
\* IndexError, whether or not the indices coincide; with all indices in range,
\* coinciding indices raise ValueError.
C3_OutOfRangeAlwaysIndexError ==
  [][call'.op \in IndexOps =>
       /\ AnyOutOfRange(call') => result'.status = "IndexError"
       /\ (~AnyOutOfRange(call') /\ Coincide(call')) => result'.status = "ValueError"]_vars

\* C3 amended: apply_cnot and apply_cz given equal control and target raise
\* ValueError, in range or not; every other call given an index outside
\* [0, num_qubits) raises IndexError (measure_subset also when the list has
\* duplicates); in-range indices that coincide raise ValueError.
C3_EqualityCheckedFirst ==
  [][call'.op \in IndexOps =>
       IF call'.op \in TwoQubitOps /\ Coincide(call')
       THEN result'.status = "ValueError"
       ELSE IF AnyOutOfRange(call') THEN result'.status = "IndexError"
       ELSE IF Coincide(call') THEN result'.status = "ValueError"
       ELSE result'.status = "ok"]_vars

\* C3 witness: apply_cnot(-1, -1), equal and out of range, raised ValueError.
C3_EqualOutOfRangeRaisedValueError ==
  /\ call.op = "apply_cnot"
  /\ call.args = <<-1, -1>>
  /\ result.status = "ValueError"

\* the matrix the last call applied
GateOf(c) ==
  CASE c.op = "apply_hadamard" -> H_GATE
    [] c.op = "apply_pauli_x" -> X_GATE
    [] c.op = "apply_pauli_y" -> Y_GATE
    [] c.op = "apply_pauli_z" -> Z_GATE
    [] c.op = "apply_s" -> S_GATE
    [] c.op = "apply_t" -> T_GATE
    [] c.op = "apply_rx" -> RxGate(c.args[2])
    [] c.op = "apply_ry" -> RyGate(c.args[2])
    [] c.op = "apply_rz" -> RzGate(c.args[2])

\* bit of index at qubit q, qubit 0 being the most significant of num_qubits bits
QubitBit(index, q) == (index \div Pow2(num_qubits - 1 - q)) % 2
\* index with its bit at qubit q flipped
Flipped(index, q) ==
  IF QubitBit(index, q) = 1 THEN index - Pow2(num_qubits - 1 - q)
  ELSE index + Pow2(num_qubits - 1 - q)

\* the common factor of the amplitude list is left as it was
SameWeight == state'.dev = state.dev /\ state'.den = state.den

\* C4: a single-qubit gate g applied to qubit q sets, for every index i whose
\* bit 2^(n-1-q) is 0, new[i] = g00*old[i] + g01*old[i|mask] and
\* new[i|mask] = g10*old[i] + g11*old[i|mask], read from the list before the
\* call; apply_pauli_x exchanges the amplitudes at i and i XOR mask, and on a
\* fresh circuit moves the amplitude 1 from index 0 to index 2^(n-1-q).
C4_GateActsOnPairs ==
  [][(call'.op \in SingleQubitOps /\ result'.status = "ok") =>
       \A g \in {GateOf(call')}, q \in {call'.args[1]} :
          /\ SameWeight
          /\ \A i \in Indices :
               QubitBit(i, q) = 0 =>
                 /\ state'.amp[i] =
                      CAdd(CMul(g[1][1], state.amp[i]), CMul(g[1][2], state.amp[Flipped(i, q)]))
                 /\ state'.amp[Flipped(i, q)] =
                      CAdd(CMul(g[2][1], state.amp[i]), CMul(g[2][2], state.amp[Flipped(i, q)]))
          /\ call'.op = "apply_pauli_x" =>
               /\ \A i \in Indices : state'.amp[i] = state.amp[Flipped(i, q)]
               /\ calls = 0 =>
                    state'.amp =
                      [i \in Indices |-> IF i = Pow2(num_qubits - 1 - q) THEN One ELSE Zero]
     ]_vars

\* C4 witness: on a 2-qubit circuit holding an H(1)-prepared superposition,
\* apply_pauli_x(0) moved the amplitudes of indices 0 and 1 to indices 2 and 3.
C4_PauliXMovedSuperposition ==
  /\ num_qubits = 2
  /\ call.op = "apply_pauli_x"
  /\ call.args = <<0>>
  /\ result.status = "ok"
  /\ state.amp = [i \in 0 .. 3 |-> IF i >= 2 THEN InvSqrt2 ELSE Zero]

\* C5: apply_cnot(control, target) with distinct in-range indices permutes the
\* amplitudes: the old amplitude of every index whose control bit is 1 is the
\* new amplitude of that index with the target bit flipped, the amplitude of
\* every index whose control bit is 0 is unchanged, and every index is the
\* destination of exactly one index.
C5_CnotPermutes ==
  [][(call'.op = "apply_cnot" /\ result'.status = "ok") =>
       \A control \in {call'.args[1]}, target \in {call'.args[2]} :
          /\ SameWeight
          /\ \A i \in Indices :
               /\ QubitBit(i, control) = 1 => state'.amp[Flipped(i, target)] = state.amp[i]
               /\ QubitBit(i, control) = 0 => state'.amp[i] = state.amp[i]
          /\ \A dest \in Indices :
               Cardinality({i \in Indices :
                              NewIndex(i, Mask(control), Mask(target)) = dest}) = 1
     ]_vars

\* C5 witness: apply_cnot(0, 1) turned (|00> + |10>)/sqrt 2 into the Bell state.
C5_CnotMadeBellState ==
  /\ num_qubits = 2
  /\ call.op = "apply_cnot"
  /\ call.args = <<0, 1>>
  /\ result.status = "ok"
  /\ state.amp = [i \in 0 .. 3 |-> IF i \in {0, 3} THEN InvSqrt2 ELSE Zero]

\* sum of abs(amp[i]) ** 2, without the weight, over the indices in S
RECURSIVE MassOver(_, _)
MassOver(amp, S) ==
  IF S = {} THEN Zero
  ELSE LET i == CHOOSE j \in S : TRUE
       IN CAdd(Abs2(amp[i]), MassOver(amp, S \ {i}))

\* the bits of index at the qubits of the list, in the list's order
OutcomeAt(index, qubits) == [j \in 1 .. Len(qubits) |-> QubitBit(index, qubits[j])]

\* a bit tuple read as a binary number, first bit most significant: tuples of
\* one length descend as their numbers do
RECURSIVE Binary(_)
Binary(bits) ==
  IF bits = <<>> THEN 0
  ELSE 2 * Binary(SubSeq(bits, 1, Len(bits) - 1)) + bits[Len(bits)]

\* the mass of outcome o, and the cumulative mass once the descending
\* enumeration has reached o (both without the weight)
MassOf(st, qubits, o) ==
  MassOver(st.amp, {i \in Indices : OutcomeAt(i, qubits) = o})
CumulativeTo(st, qubits, o) ==
  MassOver(st.amp, {i \in Indices : Binary(OutcomeAt(i, qubits)) >= Binary(o)})

\* the bits a measurement returned: measure's int, or the characters of the
\* string of measure_subset and measure_all
BitsOf(val) ==
  IF val.type = "int" THEN <<val.v>>
  ELSE [j \in 1 .. Len(val.v) |-> IF val.v[j] = "1" THEN 1 ELSE 0]

\* C6: a measurement of a non-empty list of distinct qubits with draw r returns
\* the first outcome, in descending order of the bit tuples, whose cumulative
\* probability mass exceeds r; measure(q) returns 1 exactly when
\* r < P(qubit q = 1).
C6_FirstOutcomeExceedingDraw ==
  [][\A rand \in Draws :
       SampledWith(rand) =>
         \A qubits \in {GivenIndices(call')}, o \in {BitsOf(result'.val)} :
            /\ RandLess(rand, CumulativeTo(state, qubits, o), state)
            /\ \A i \in Indices :
                 Binary(OutcomeAt(i, qubits)) > Binary(o) =>
                   ~RandLess(rand, CumulativeTo(state, qubits, OutcomeAt(i, qubits)), state)
            /\ call'.op = "measure" =>
                 (o = <<1>> <=> RandLess(rand, MassOf(state, qubits, <<1>>), state))]_vars

\* new = old / sqrt(mass), for new an amplitude of the list new_st and
\* mass = m * (weight of the list old was in): the same phase, and
\* abs(new)**2 * m = abs(old)**2
DividedBySqrt(new, new_st, old, m) ==
  /\ new_st.dev = 0
  /\ CMul(Abs2(new), m) = CMul(Abs2(old), new_st.den)
  /\ IsReal(CMul(new, Conj(old)))
  /\ Sgn(CMul(new, Conj(old))) >= 0

\* C7: after measure_subset(qubits) returns outcome o, every amplitude at an
\* index whose bits at the requested qubits differ from o is 0, every
\* amplitude at a matching index is its amplitude before the call divided by
\* the square root of o's probability mass, and self.measurements holds the
\* bits of the returned string, one per requested qubit in request order.
C7_CollapseDividesBySqrtMass ==
  [][(call'.op = "measure_subset" /\ result'.status = "ok" /\ call'.args[1] # <<>>) =>
       \A qubits \in {call'.args[1]}, o \in {BitsOf(result'.val)} :
          /\ Len(o) = Len(qubits)
          /\ measurements' = o
          /\ \A i \in Indices : OutcomeAt(i, qubits) # o => state'.amp[i] = Zero
          /\ \A m \in {MassOf(state, qubits, o)} :
               /\ Sgn(m) > 0
               /\ \A i \in Indices :
                    OutcomeAt(i, qubits) = o =>
                      DividedBySqrt(state'.amp[i], state', state.amp[i], m)]_vars

\* the 2-qubit basis state of index k, and the Bell state
Basis(k) == Vector([i \in 0 .. 3 |-> IF i = k THEN One ELSE Zero], 0, One)
BellState == Vector([i \in 0 .. 3 |-> IF i \in {0, 3} THEN InvSqrt2 ELSE Zero], 0, One)

\* C8: on a fresh 2-qubit circuit, apply_hadamard(0) then apply_cnot(0, 1)
\* give the Bell state; then, for every draw, measure(0) returns b and leaves
\* the basis state bb, measure_all returns "00" or "11", the collapsed state
\* stays as it is under later measurements, and a later measure(1) returns the
\* bit b of that state.
C8_BellOutcomesAgree ==
  [][ /\ calls' = 2 => state' = BellState
      /\ (calls = 2 /\ call'.op = "measure") =>
           \/ result'.val = PyInt(0) /\ state' = Basis(0)
           \/ result'.val = PyInt(1) /\ state' = Basis(3)
      /\ (calls >= 2 /\ call'.op = "measure_all") =>
           \/ result'.val = PyStr(<<"0", "0">>) /\ state' = Basis(0)
           \/ result'.val = PyStr(<<"1", "1">>) /\ state' = Basis(3)
      /\ calls >= 3 => state \in {Basis(0), Basis(3)} /\ state' = state
      /\ (calls >= 3 /\ call'.op = "measure" /\ call'.args = <<1>>) =>
           \/ state = Basis(0) /\ result'.val = PyInt(0)
           \/ state = Basis(3) /\ result'.val = PyInt(1)
    ]_vars

\* C8 witness: after the Bell pair was prepared and qubit 0 measured, the
\* fourth call measure(1) returned 1 on the state 11.
C8_Qubit1ReturnedOne ==
  /\ calls = 4
  /\ call.op = "measure"
  /\ call.args = <<1>>
  /\ result = [status |-> "ok", val |-> PyInt(1)]
  /\ measurements = <<1>>
  /\ state = Basis(3)

\* C9: whenever measure or measure_subset samples an outcome, in any reachable
\* state and for any draw, the selection loop itself selects the outcome (the
\* fallback to the last key is not taken) and the chosen outcome has a
\* positive probability mass (the division is not skipped).
C9_LoopSelectsPositiveMass ==
  [][\A rand \in Draws :
       SampledWith(rand) =>
         \A s \in {Selection(state, GivenIndices(call'), rand)} :
            /\ s.selected # 0
            /\ Sgn(s.outcome_probs[s.chosen_outcome]) > 0]_vars

\* C10: measure_all returns a string of num_qubits bits, leaves a single basis
\* state (one amplitude of magnitude 1, all others 0) whose index, read as a
\* binary number with qubit 0 most significant, is the returned string, and
\* leaves the same bits in self.measurements.
C10_MeasureAllEndsInBasisState ==
  [][call'.op = "measure_all" =>
       /\ result'.status = "ok"
       /\ result'.val.type = "str"
       /\ \A o \in {BitsOf(result'.val)} :
            /\ Len(o) = num_qubits
            /\ measurements' = o
            /\ \A i \in Indices :
                 IF i = Binary(o)
                 THEN state'.dev = 0 /\ Abs2(state'.amp[i]) = state'.den
                 ELSE state'.amp[i] = Zero]_vars

\* a successful call of measure or measure_subset that repeats the call before
\* it, itself successful, with the same arguments
RepeatsMeasurement ==
  /\ call.op \in {"measure", "measure_subset"}
  /\ result.status = "ok"
  /\ call'.op = call.op
  /\ call'.args = call.args
  /\ result'.status = "ok"

\* C11: when measure(q) or measure_subset(qubits) has returned an outcome and
\* the same call is made again directly after it, then for every draw the
\* second call returns the same outcome and leaves the amplitude list and
\* self.measurements as the first call left them.
C11_MeasurementRepeats ==
  [][RepeatsMeasurement =>
       /\ result'.val = result.val
       /\ state' = state
       /\ measurements' = measurements]_vars

====
